---- MODULE Spec2Model ----
(***************************************************************************)
(* PowerGridPlus: the transform stage (powergrid.transform), the anomaly   *)
(* rule engine (powergrid.anomalies), the database loader (powergrid.load) *)
(* and the orchestration (powergrid.pipeline, powergrid.cli).              *)
(*                                                                         *)
(* A DataFrame is a sequence of rows; a row is a record whose field idx is *)
(* the row's index label and whose other fields are the columns.  A cell   *)
(* is a record [k, s, n, d]: k is the cell's representation, s the text of *)
(* a string cell (a sequence of one-character strings), n/d the value of a *)
(* number (a float is the rational n/d with d > 0).  Text of a timestamp   *)
(* is carried as "HH:MM" of one day, an instant as minutes since midnight. *)
(***************************************************************************)
EXTENDS Integers, Sequences, FiniteSets, TLC

VARIABLES
    pc,       \* position of transform_data / run_anomaly_detection
    heap,     \* the DataFrame objects that exist, by identity (1..Len(heap))
    ref,      \* the object the local variable df is bound to
    argId,    \* the object passed to the stage function called last
    argIn,    \* that object's content when the call was made
    file,     \* content of the processed parquet file (<<>>: not written)
    fs,       \* files under data/: records [kind, mtime]
    clock,    \* the file system's clock
    table,    \* the readings table: the kind of file each load appended
    cmds,     \* CLI commands run so far
    ppc,      \* position of run_pipeline
    events    \* what run_pipeline did, in order

tvars == <<pc, heap, ref, argId, argIn, file>>
cvars == <<fs, clock, table, cmds, ppc, events>>
vars == <<pc, heap, ref, argId, argIn, file, fs, clock, table, cmds, ppc, events>>

(***************************************************************************)
(* Bounds of the model.                                                    *)
(***************************************************************************)
MaxRows == 2
FeatRows == 6
MaxCmds == 3

(***************************************************************************)
(* Cells.                                                                  *)
(***************************************************************************)
Str(s) == [k |-> "str", s |-> s, n |-> 0, d |-> 1]
Flt(n, d) == [k |-> "float", s |-> <<>>, n |-> n, d |-> d]
IntV(n) == [k |-> "int", s |-> <<>>, n |-> n, d |-> 1]
NaN == [k |-> "nan", s |-> <<>>, n |-> 0, d |-> 1]
Inf(sign) == [k |-> "inf", s |-> <<>>, n |-> sign, d |-> 1]
Ts(m) == [k |-> "datetime", s |-> <<>>, n |-> m, d |-> 1]
NaT == [k |-> "nat", s |-> <<>>, n |-> 0, d |-> 1]
Cat(s) == [k |-> "category", s |-> s, n |-> 0, d |-> 1]
Bool(b) == [k |-> "bool", s |-> <<>>, n |-> IF b THEN 1 ELSE 0, d |-> 1]
None == [k |-> "none", s |-> <<>>, n |-> 0, d |-> 1]
Text(t) == [k |-> "text", s |-> <<t>>, n |-> 0, d |-> 1]

IsNa(c) == c.k \in {"nan", "nat", "none"}

\* IEEE comparisons of a float cell with the finite constant n/d (d > 0):
\* every comparison with NaN is false.
Lt(c, n, d) ==
    CASE c.k \in {"float", "int"} -> c.n * d < n * c.d
      [] c.k = "inf" -> c.n < 0
      [] OTHER -> FALSE

Gt(c, n, d) ==
    CASE c.k \in {"float", "int"} -> c.n * d > n * c.d
      [] c.k = "inf" -> c.n > 0
      [] OTHER -> FALSE

EqNum(c, n, d) == c.k \in {"float", "int"} /\ c.n * d = n * c.d

\* IEEE division num/den of two finite integers-as-floats.
Div(num, den) ==
    IF den > 0 THEN Flt(num, den)
    ELSE IF den < 0 THEN Flt(-num, -den)
    ELSE IF num > 0 THEN Inf(1)
    ELSE IF num < 0 THEN Inf(-1)
    ELSE NaN

(***************************************************************************)
(* Parsing of text.                                                        *)
(***************************************************************************)
Digits == {"0", "1", "2", "3", "4", "5", "6", "7", "8", "9"}

DigitVal(c) ==
    CASE c = "0" -> 0 [] c = "1" -> 1 [] c = "2" -> 2 [] c = "3" -> 3
      [] c = "4" -> 4 [] c = "5" -> 5 [] c = "6" -> 6 [] c = "7" -> 7
      [] c = "8" -> 8 [] c = "9" -> 9

AllDigits(s) == s # <<>> /\ \A i \in 1..Len(s) : s[i] \in Digits

RECURSIVE DigitsVal(_)
DigitsVal(s) ==
    IF s = <<>> THEN 0
    ELSE 10 * DigitsVal(SubSeq(s, 1, Len(s) - 1)) + DigitVal(s[Len(s)])

\* A decimal integer with an optional sign: [ok, n].
ParseInt(s) ==
    IF s # <<>> /\ Head(s) = "-" /\ AllDigits(Tail(s))
    THEN [ok |-> TRUE, n |-> 0 - DigitsVal(Tail(s))]
    ELSE IF AllDigits(s) THEN [ok |-> TRUE, n |-> DigitsVal(s)]
    ELSE [ok |-> FALSE, n |-> 0]

\* "HH:MM" to minutes since midnight: [ok, n].
ParseTime(s) ==
    IF /\ Len(s) = 5
       /\ s[3] = ":"
       /\ AllDigits(SubSeq(s, 1, 2))
       /\ AllDigits(SubSeq(s, 4, 5))
       /\ DigitsVal(SubSeq(s, 1, 2)) < 24
       /\ DigitsVal(SubSeq(s, 4, 5)) < 60
    THEN [ok |-> TRUE, n |-> 60 * DigitsVal(SubSeq(s, 1, 2)) + DigitsVal(SubSeq(s, 4, 5))]
    ELSE [ok |-> FALSE, n |-> 0]

(***************************************************************************)
(* Columns of a DataFrame.                                                 *)
(***************************************************************************)
Col(df, col) == [i \in 1..Len(df) |-> df[i][col]]

\* df[col] = vals, positionally (vals has the frame's own index).
SetCol(df, col, vals) ==
    [i \in 1..Len(df) |->
        [c \in (DOMAIN df[i]) \cup {col} |-> IF c = col THEN vals[i] ELSE df[i][c]]]

Labels(df) == {df[i].idx : i \in 1..Len(df)}

\* df[col] = series, where series maps index labels to values: alignment
\* on the index label.
SetColByLabel(df, col, series) ==
    SetCol(df, col, [i \in 1..Len(df) |-> series[df[i].idx]])

(***************************************************************************)
(* _clean_types                                                            *)
(***************************************************************************)
\* pd.to_datetime(x), errors="raise": [ok, v].
ToDatetime(c) ==
    CASE c.k = "str" ->
            LET p == ParseTime(c.s)
            IN  [ok |-> p.ok, v |-> IF p.ok THEN Ts(p.n) ELSE c]
      [] c.k \in {"datetime", "nat"} -> [ok |-> TRUE, v |-> c]
      [] IsNa(c) -> [ok |-> TRUE, v |-> NaT]
      [] OTHER -> [ok |-> FALSE, v |-> c]  \* numbers as timestamps: not in the inputs

\* x.astype(int): [ok, v].
AsInt(c) ==
    CASE c.k = "str" ->
            LET p == ParseInt(c.s)
            IN  [ok |-> p.ok, v |-> IF p.ok THEN IntV(p.n) ELSE c]
      [] c.k = "int" -> [ok |-> TRUE, v |-> c]
      [] c.k = "float" -> [ok |-> TRUE, v |-> IntV(c.n \div c.d)]
      [] OTHER -> [ok |-> FALSE, v |-> c]

\* x.astype("category")
AsCategory(c) == IF c.k = "str" THEN Cat(c.s) ELSE c

\* pd.to_numeric(x, errors="coerce")
ToNumeric(c) ==
    CASE c.k = "str" ->
            LET p == ParseInt(c.s)
            IN  IF p.ok THEN Flt(p.n, 1) ELSE NaN
      [] c.k \in {"float", "int", "inf", "nan"} -> c
      [] OTHER -> NaN

float_cols == <<"voltage", "current", "power_kw", "power_factor", "temperature_c">>

RECURSIVE CoerceFloatCols(_, _)
CoerceFloatCols(df, j) ==
    IF j > Len(float_cols) THEN df
    ELSE CoerceFloatCols(
            SetCol(df, float_cols[j],
                   [i \in 1..Len(df) |-> ToNumeric(df[i][float_cols[j]])]),
            j + 1)

\* What a stage function does to the object it is passed (arg), what it
\* returns (out), whether the returned object is the passed one (same),
\* and whether it raised instead of returning.
Result(raised, arg, out, same) ==
    [raised |-> raised, arg |-> arg, out |-> out, same |-> same]

\* _clean_types as it would be on a copy: df = df.copy() first
CleanTypesCopying(df) ==
    LET ts == [i \in 1..Len(df) |-> ToDatetime(df[i].timestamp)]
        ids == [i \in 1..Len(df) |-> AsInt(df[i].meter_id)]
        d1 == SetCol(df, "timestamp", [i \in 1..Len(df) |-> ts[i].v])
        d2 == SetCol(d1, "meter_id", [i \in 1..Len(df) |-> ids[i].v])
        d3 == SetCol(d2, "region", [i \in 1..Len(df) |-> AsCategory(df[i].region)])
    IN  IF \E i \in 1..Len(df) : ~ts[i].ok THEN Result(TRUE, df, df, FALSE)
        ELSE IF \E i \in 1..Len(df) : ~ids[i].ok THEN Result(TRUE, df, df, FALSE)
        ELSE Result(FALSE, df, CoerceFloatCols(d3, 1), FALSE)

\* Each statement assigns a column of df itself; a statement that raises
\* leaves the columns assigned before it converted.
CleanTypes(df) ==
    LET ts == [i \in 1..Len(df) |-> ToDatetime(df[i].timestamp)]
        ids == [i \in 1..Len(df) |-> AsInt(df[i].meter_id)]
        d1 == SetCol(df, "timestamp", [i \in 1..Len(df) |-> ts[i].v])
        d2 == SetCol(d1, "meter_id", [i \in 1..Len(df) |-> ids[i].v])
        d3 == SetCol(d2, "region", [i \in 1..Len(df) |-> AsCategory(df[i].region)])
        d4 == CoerceFloatCols(d3, 1)
    IN  IF \E i \in 1..Len(df) : ~ts[i].ok THEN Result(TRUE, df, df, TRUE)
        ELSE IF \E i \in 1..Len(df) : ~ids[i].ok THEN Result(TRUE, d1, d1, TRUE)
        ELSE Result(FALSE, d4, d4, TRUE)

(***************************************************************************)
(* _clean_values                                                           *)
(***************************************************************************)
\* df[col] < n/d and df[col] > n/d: a mask, one truth value per row
MaskLt(df, col, n, d) == [i \in 1..Len(df) |-> Lt(df[i][col], n, d)]

MaskGt(df, col, n, d) == [i \in 1..Len(df) |-> Gt(df[i][col], n, d)]

\* df.loc[mask, col] = value
SetWhere(df, mask, col, value) ==
    SetCol(df, col, [i \in 1..Len(df) |-> IF mask[i] THEN value ELSE df[i][col]])

\* df.dropna(subset=cols): a new frame, the surviving rows in order
DropNa(df, cols) == SelectSeq(df, LAMBDA r : \A c \in cols : ~IsNa(r[c]))

\* the bound rules without the rule for power_kw
ApplyBoundsNoPowerRule(df) ==
    LET d1 == SetWhere(df, MaskLt(df, "voltage", 50, 1), "voltage", NaN)
        d2 == SetWhere(d1, MaskLt(d1, "current", 0, 1), "current", NaN)
        d4 == SetWhere(d2, MaskGt(d2, "power_factor", 1, 1), "power_factor", Flt(1, 1))
    IN  SetWhere(d4, MaskLt(d4, "power_factor", 0, 1), "power_factor", NaN)

\* the bound rules with a negative power_factor clamped to 0.0
ApplyBoundsClampNegative(df) ==
    LET d1 == SetWhere(df, MaskLt(df, "voltage", 50, 1), "voltage", NaN)
        d2 == SetWhere(d1, MaskLt(d1, "current", 0, 1), "current", NaN)
        d3 == SetWhere(d2, MaskLt(d2, "power_kw", 0, 1), "power_kw", NaN)
        d4 == SetWhere(d3, MaskGt(d3, "power_factor", 1, 1), "power_factor", Flt(1, 1))
    IN  SetWhere(d4, MaskLt(d4, "power_factor", 0, 1), "power_factor", Flt(0, 1))

\* the five bound rules, applied to df itself
ApplyBounds(df) ==
    LET d1 == SetWhere(df, MaskLt(df, "voltage", 50, 1), "voltage", NaN)
        d2 == SetWhere(d1, MaskLt(d1, "current", 0, 1), "current", NaN)
        d3 == SetWhere(d2, MaskLt(d2, "power_kw", 0, 1), "power_kw", NaN)
        d4 == SetWhere(d3, MaskGt(d3, "power_factor", 1, 1), "power_factor", Flt(1, 1))
    IN  SetWhere(d4, MaskLt(d4, "power_factor", 0, 1), "power_factor", NaN)

CleanValues(df) ==
    LET masked == ApplyBounds(df)
    IN  Result(FALSE, masked, DropNa(masked, {"voltage", "current", "power_kw"}), FALSE)

(***************************************************************************)
(* _engineer_features                                                      *)
(***************************************************************************)
\* timestamp.dt.hour + timestamp.dt.minute / 60.0
HourOfDay(c) ==
    IF c.k = "datetime" THEN Flt(60 * (c.n \div 60) + (c.n % 60), 60) ELSE NaN

\* the order of sort_values(["meter_id", "timestamp"]): NaT sorts last
KeyLe(a, b) ==
    \/ a.meter_id.n < b.meter_id.n
    \/ /\ a.meter_id.n = b.meter_id.n
       /\ \/ b.timestamp.k = "nat"
          \/ a.timestamp.k = "datetime" /\ a.timestamp.n <= b.timestamp.n

\* r goes behind every row that is not greater: rows with equal keys keep
\* the order they had (the sort on several columns is stable)
InsertRow(s, r) ==
    LET k == Cardinality({i \in 1..Len(s) : KeyLe(s[i], r)})
    IN  SubSeq(s, 1, k) \o <<r>> \o SubSeq(s, k + 1, Len(s))

RECURSIVE SortValues(_)
SortValues(df) ==
    IF Len(df) = 0 THEN <<>>
    ELSE InsertRow(SortValues(SubSeq(df, 1, Len(df) - 1)), df[Len(df)])

\* rolling(window=4, min_periods=1)
Window == 4
MinPeriods == 1

\* A running sum sn/sd over nobs observations: add x coming into the window,
\* remove x leaving it; a NaN is no observation.
Acc(sn, sd, nobs) == [sn |-> sn, sd |-> sd, nobs |-> nobs]

AddVal(a, x) ==
    IF x.k \in {"float", "int"}
    THEN Acc(a.sn * x.d + x.n * a.sd, a.sd * x.d, a.nobs + 1)
    ELSE a

RemoveVal(a, x) ==
    IF x.k \in {"float", "int"}
    THEN Acc(a.sn * x.d - x.n * a.sd, a.sd * x.d, a.nobs - 1)
    ELSE a

MeanOf(a) == IF a.nobs >= MinPeriods THEN Div(a.sn, a.sd * a.nobs) ELSE NaN

RECURSIVE RollFrom(_, _, _, _)
RollFrom(vals, i, a, w) ==
    IF i > Len(vals) THEN <<>>
    ELSE LET a1 == AddVal(a, vals[i])
             a2 == IF i > w THEN RemoveVal(a1, vals[i - w]) ELSE a1
         IN  <<MeanOf(a2)>> \o RollFrom(vals, i + 1, a2, w)

\* vals.rolling(window=4, min_periods=1).mean()
RollingMean(vals) == RollFrom(vals, 1, Acc(0, 1, 0), Window)

\* cur / prev - 1
PctOf(prev, cur) ==
    IF prev.k \in {"float", "int"} /\ cur.k \in {"float", "int"}
    THEN Div(cur.n * prev.d - cur.d * prev.n, cur.d * prev.n)
    ELSE NaN

\* vals.pct_change(): vals / vals.shift(1) - 1
PctChange(vals) ==
    [i \in 1..Len(vals) |-> IF i = 1 THEN NaN ELSE PctOf(vals[i - 1], vals[i])]

\* x.fillna(v)
FillNa(c, v) == IF IsNa(c) THEN v ELSE c

\* the rows of one group of df.groupby("meter_id"), in the frame's order
Group(df, key) == SelectSeq(df, LAMBDA r : r.meter_id = key)

\* the position in its group of the row labelled lab
PosInGroup(g, lab) == CHOOSE k \in 1..Len(g) : g[k].idx = lab

RowAt(df, lab) == df[CHOOSE i \in 1..Len(df) : df[i].idx = lab]

\* df["power_kw"].rolling(...).mean(), without the groupby
UngroupedRolling(df) ==
    [lab \in Labels(df) |-> RollingMean(Col(df, "power_kw"))[PosInGroup(df, lab)]]

\* df.groupby("meter_id")["power_kw"].rolling(...).mean()
\*   .reset_index(level=0, drop=True): a series on the rows' own labels
GroupedRolling(df) ==
    [lab \in Labels(df) |->
        LET g == Group(df, RowAt(df, lab).meter_id)
        IN  RollingMean(Col(g, "power_kw"))[PosInGroup(g, lab)]]

\* df["power_kw"].pct_change().fillna(0), without the groupby
UngroupedPctChange(df) ==
    [lab \in Labels(df) |->
        FillNa(PctChange(Col(df, "power_kw"))[PosInGroup(df, lab)], Flt(0, 1))]

\* df.groupby("meter_id")["power_kw"].pct_change().fillna(0)
GroupedPctChange(df) ==
    [lab \in Labels(df) |->
        LET g == Group(df, RowAt(df, lab).meter_id)
        IN  FillNa(PctChange(Col(g, "power_kw"))[PosInGroup(g, lab)], Flt(0, 1))]

\* hour_of_day is assigned to the frame passed in; sort_values returns a
\* new frame, which gets the two other columns
EngineerFeatures(df) ==
    LET hours == SetCol(df, "hour_of_day",
                        [i \in 1..Len(df) |-> HourOfDay(df[i].timestamp)])
        sorted == SortValues(hours)
        rolled == SetColByLabel(sorted, "rolling_kw_1h", GroupedRolling(sorted))
    IN  Result(FALSE, hours,
               SetColByLabel(rolled, "kw_pct_change", GroupedPctChange(rolled)),
               FALSE)

(***************************************************************************)
(* _apply_rules                                                            *)
(***************************************************************************)
RECURSIVE Join(_, _)
Join(names, sep) ==
    IF Len(names) = 1 THEN names[1]
    ELSE names[1] \o sep \o Join(Tail(names), sep)

AppendIf(r, cond, name) == IF cond THEN Append(r, name) ELSE r

\* the list r if the rules were an if/elif chain
RowReasonsElif(row) ==
    IF Lt(row.voltage, 180, 1) \/ Gt(row.voltage, 250, 1)
    THEN <<"voltage_out_of_range">>
    ELSE IF Lt(row.current, 0, 1) \/ Gt(row.current, 50, 1)
    THEN <<"current_out_of_range">>
    ELSE IF Gt(row.kw_pct_change, 3, 2) THEN <<"sudden_spike">>
    ELSE IF Lt(row.kw_pct_change, -4, 5) THEN <<"sudden_drop">>
    ELSE IF /\ EqNum(row.power_kw, 0, 1)
            /\ Gt(row.voltage, 150, 1)
            /\ Gt(row.current, 1, 10)
    THEN <<"zero_power_but_active_line">>
    ELSE <<>>

\* the list r of one row
RowReasons(row) ==
    LET r1 == AppendIf(<<>>, Lt(row.voltage, 180, 1) \/ Gt(row.voltage, 250, 1),
                       "voltage_out_of_range")
        r2 == AppendIf(r1, Lt(row.current, 0, 1) \/ Gt(row.current, 50, 1),
                       "current_out_of_range")
        r3 == AppendIf(r2, Gt(row.kw_pct_change, 3, 2), "sudden_spike")
        r4 == AppendIf(r3, Lt(row.kw_pct_change, -4, 5), "sudden_drop")
    IN  AppendIf(r4, /\ EqNum(row.power_kw, 0, 1)
                     /\ Gt(row.voltage, 150, 1)
                     /\ Gt(row.current, 1, 10),
                 "zero_power_but_active_line")

ReasonCell(r) == IF Len(r) = 0 THEN None ELSE Text(Join(r, ","))

\* both columns are assigned to the frame passed in, which is returned
ApplyRules(df) ==
    LET reasons == [i \in 1..Len(df) |-> ReasonCell(RowReasons(df[i]))]
        d1 == SetCol(df, "anomaly_reason", reasons)
        d2 == SetCol(d1, "anomaly_flag",
                     [i \in 1..Len(df) |-> Bool(~IsNa(d1[i].anomaly_reason))])
    IN  Result(FALSE, d2, d2, TRUE)

(***************************************************************************)
(* transform_data and run_anomaly_detection, statement by statement        *)
(***************************************************************************)
\* df = f(df): the call's effect on the objects and on the binding of df
Call(r, next) ==
    /\ argId' = ref
    /\ argIn' = heap[ref]
    /\ IF r.raised
       THEN /\ heap' = [heap EXCEPT ![ref] = r.arg]
            /\ ref' = ref
            /\ pc' = "raised"
       ELSE /\ heap' = IF r.same THEN [heap EXCEPT ![ref] = r.arg]
                       ELSE Append([heap EXCEPT ![ref] = r.arg], r.out)
            /\ ref' = IF r.same THEN ref ELSE Len(heap) + 1
            /\ pc' = next

\* to_parquet(index=False), read_parquet: the rows with a new RangeIndex
ResetIndex(df) ==
    [i \in 1..Len(df) |->
        [c \in DOMAIN df[i] |-> IF c = "idx" THEN i - 1 ELSE df[i][c]]]

DoCleanTypes ==
    /\ pc = "loaded"
    /\ Call(CleanTypes(heap[ref]), "typed")
    /\ UNCHANGED <<file, cvars>>

DoCleanValues ==
    /\ pc = "typed"
    /\ Call(CleanValues(heap[ref]), "cleaned")
    /\ UNCHANGED <<file, cvars>>

DoEngineerFeatures ==
    /\ pc = "cleaned"
    /\ Call(EngineerFeatures(heap[ref]), "featured")
    /\ UNCHANGED <<file, cvars>>

SaveProcessed ==
    /\ pc = "featured"
    /\ file' = ResetIndex(heap[ref])
    /\ pc' = "saved"
    /\ UNCHANGED <<heap, ref, argId, argIn, cvars>>

\* run_anomaly_detection: df = pd.read_parquet(...); df = _apply_rules(df)
DoApplyRules ==
    /\ pc = "saved"
    /\ LET r == ApplyRules(file)
       IN  /\ heap' = Append(heap, r.out)
           /\ ref' = Len(heap) + 1
           /\ argId' = Len(heap) + 1
           /\ argIn' = file
           /\ pc' = "tagged"
    /\ UNCHANGED <<file, cvars>>

NextTransform ==
    \/ DoCleanTypes
    \/ DoCleanValues
    \/ DoEngineerFeatures
    \/ SaveProcessed
    \/ DoApplyRules

(***************************************************************************)
(* Raw record sets.                                                        *)
(***************************************************************************)
RawRow(i, ts, meter, v, c, p, pf) ==
    [idx |-> i - 1, timestamp |-> ts, meter_id |-> meter,
     region |-> Str(<<"N">>), voltage |-> v, current |-> c, power_kw |-> p,
     power_factor |-> pf, temperature_c |-> Flt(25, 1)]

Midnight == Str(<<"0", "0", ":", "0", "0">>)
Quarter == Str(<<"0", "0", ":", "1", "5">>)
Garbled == Str(<<"n", "/", "a">>)

CliIdle ==
    /\ fs = {}
    /\ clock = 0
    /\ table = <<>>
    /\ cmds = 0
    /\ ppc = "idle"
    /\ events = <<>>

InitWith(rows) ==
    /\ pc = "loaded"
    /\ heap = <<rows>>
    /\ ref = 1
    /\ argId = 1
    /\ argIn = rows
    /\ file = <<>>
    /\ CliIdle

\* text and numbers, parseable or not
TypesChoices ==
    [ts : {Midnight, Quarter, Garbled, NaN},
     meter : {IntV(1), Str(<<"2">>), Str(<<"x">>)},
     v : {Flt(230, 1), Str(<<"2", "3", "0">>), Str(<<"a", "b", "c">>)}]

InitTypes ==
    \E n \in 1..MaxRows : \E f \in [1..n -> TypesChoices] :
        InitWith([i \in 1..n |->
            RawRow(i, f[i].ts, f[i].meter, f[i].v, Flt(10, 1), Flt(2, 1), Flt(1, 1))])

\* values on both sides of every bound of the sanitizer
ValuesChoices ==
    [v : {Str(<<"a", "b", "c">>), Flt(40, 1), Flt(50, 1)},
     c : {Str(<<"-", "1">>), Flt(0, 1)},
     p : {Flt(-1, 1), Flt(2, 1)},
     pf : {Str(<<"?">>), Flt(-1, 1), Flt(1, 2), Flt(2, 1)}]

InitValues ==
    \E n \in 1..MaxRows : \E f \in [1..n -> ValuesChoices] :
        InitWith([i \in 1..n |->
            RawRow(i, Midnight, IntV(1), f[i].v, f[i].c, f[i].p, f[i].pf)])

\* one reading every 15 minutes
DEFAULT_INTERVAL_MIN == 15

DigitChar(n) ==
    CASE n = 0 -> "0" [] n = 1 -> "1" [] n = 2 -> "2" [] n = 3 -> "3"
      [] n = 4 -> "4" [] n = 5 -> "5" [] n = 6 -> "6" [] n = 7 -> "7"
      [] n = 8 -> "8" [] n = 9 -> "9"

\* the text of the instant m minutes after midnight
FormatTime(m) ==
    <<DigitChar((m \div 60) \div 10), DigitChar((m \div 60) % 10), ":",
      DigitChar((m % 60) \div 10), DigitChar((m % 60) % 10)>>

\* the text of the k-th instant of the series
SlotText(k) == Str(FormatTime((k - 1) * DEFAULT_INTERVAL_MIN))

\* two meters, interleaved anyhow, the rows in or against time order
FeatChoices == [meter : {IntV(1), IntV(2)}, p : {Flt(0, 1), Flt(3, 1)}]

InitFeatures ==
    \E n \in 1..FeatRows : \E f \in [1..n -> FeatChoices] :
        \E ascending \in BOOLEAN :
            InitWith([i \in 1..n |->
                RawRow(i, SlotText(IF ascending THEN i ELSE n + 1 - i), f[i].meter,
                       Flt(230, 1), Flt(10, 1), f[i].p, Flt(1, 1))])

\* readings that trigger each rule, and none
RulesChoices ==
    [v : {Flt(170, 1), Flt(230, 1), Flt(300, 1)},
     c : {Flt(0, 1), Flt(10, 1), Flt(60, 1)},
     p : {Flt(0, 1), Flt(1, 1), Flt(3, 1)}]

InitRules ==
    \E n \in 1..MaxRows : \E f \in [1..n -> RulesChoices] :
        InitWith([i \in 1..n |->
            RawRow(i, Midnight, IntV(1), f[i].v, f[i].c, f[i].p, Flt(1, 1))])

SpecTypes == InitTypes /\ [][NextTransform]_vars
SpecValues == InitValues /\ [][NextTransform]_vars
SpecFeatures == InitFeatures /\ [][NextTransform]_vars
SpecRules == InitRules /\ [][NextTransform]_vars

(***************************************************************************)
(* The files under data/, the loader and the commands.                     *)
(*                                                                         *)
(* A file is [kind, mtime]: its name is its kind's prefix and the second   *)
(* it was written in, so two files of a kind written in one tick of the    *)
(* clock are one file.  ok is whether the environment (disk, database,     *)
(* content of the data) lets the operation succeed.                        *)
(***************************************************************************)
Outcome(raised, files, now, rows) ==
    [raised |-> raised, fs |-> files, clock |-> now, table |-> rows]

Raised == Outcome(TRUE, fs, clock, table)

OfKind(files, kinds) == {f \in files : f.kind \in kinds}

MaxMtime(files) == CHOOSE m \in {f.mtime : f \in files} : \A f \in files : f.mtime <= m

\* max(processed_energy_* + anomaly_tagged_*, key=mtime): of the files
\* modified last, the first of the list
LatestProcessedFile(files) ==
    LET cand == OfKind(files, {"processed", "tagged"})
        m == MaxMtime(cand)
    IN  IF [kind |-> "processed", mtime |-> m] \in cand
        THEN [kind |-> "processed", mtime |-> m]
        ELSE [kind |-> "tagged", mtime |-> m]

GenerateData(ok, dt) ==
    IF ok
    THEN Outcome(FALSE, fs \cup {[kind |-> "raw", mtime |-> clock + dt]}, clock + dt, table)
    ELSE Raised

\* _latest_raw_file raises when there is no raw file
TransformData(ok, dt) ==
    IF ok /\ OfKind(fs, {"raw"}) # {}
    THEN Outcome(FALSE, fs \cup {[kind |-> "processed", mtime |-> clock + dt]},
                 clock + dt, table)
    ELSE Raised

\* _latest_processed raises when there is no processed file
RunAnomalyDetection(ok, dt) ==
    IF ok /\ OfKind(fs, {"processed"}) # {}
    THEN Outcome(FALSE, fs \cup {[kind |-> "tagged", mtime |-> clock + dt]},
                 clock + dt, table)
    ELSE Raised

\* the rows of the latest file are appended to readings
LoadToPostgres(ok, dt) ==
    IF ok /\ OfKind(fs, {"processed", "tagged"}) # {}
    THEN Outcome(FALSE, fs, clock, Append(table, LatestProcessedFile(fs).kind))
    ELSE Raised

Stages == <<"generate", "transform", "detect", "load">>

StageIndex(name) == CHOOSE i \in 1..Len(Stages) : Stages[i] = name

StageCall(i, ok, dt) ==
    CASE i = 1 -> GenerateData(ok, dt)
      [] i = 2 -> TransformData(ok, dt)
      [] i = 3 -> RunAnomalyDetection(ok, dt)
      [] i = 4 -> LoadToPostgres(ok, dt)

Apply(o) ==
    /\ fs' = o.fs
    /\ clock' = o.clock
    /\ table' = o.table

\* powergrid generate | etl | anomalies | load: one call, then the process ends
Command(i) ==
    /\ ppc = "idle"
    /\ cmds < MaxCmds
    /\ \E ok \in BOOLEAN, dt \in {0, 1} : Apply(StageCall(i, ok, dt))
    /\ cmds' = cmds + 1
    /\ UNCHANGED <<ppc, events, tvars>>

CmdGenerate == Command(1)
CmdEtl == Command(2)
CmdAnomalies == Command(3)
CmdLoad == Command(4)

\* powergrid pipeline: run_pipeline is entered
CmdPipeline ==
    /\ ppc = "idle"
    /\ cmds < MaxCmds
    /\ cmds' = cmds + 1
    /\ ppc' = Stages[1]
    /\ events' = <<>>
    /\ UNCHANGED <<fs, clock, table, tvars>>

Ev(what, i) == [ev |-> what, stage |-> Stages[i]]
Reraise == [ev |-> "reraise", stage |-> ""]
Complete == [ev |-> "complete", stage |-> ""]

\* the handler without its raise: control reaches the print after the try
AfterExceptSwallow(log) == [ppc |-> "complete", events |-> Append(log, Complete)]

\* except Exception as e: print(...); raise
AfterExcept(log) == [ppc |-> "raised", events |-> Append(log, Reraise)]

\* the statement after a stage that returned: the next stage, or, after
\* the try block, the print of PIPELINE COMPLETE
AfterReturn(i, log) ==
    IF i < Len(Stages) THEN [ppc |-> Stages[i + 1], events |-> log]
    ELSE [ppc |-> "complete", events |-> Append(log, Complete)]

\* one stage of the try block of run_pipeline
PipelineStage ==
    /\ \E i \in 1..Len(Stages) : ppc = Stages[i]
    /\ \E ok \in BOOLEAN, dt \in {0, 1} :
        LET i == StageIndex(ppc)
            o == StageCall(i, ok, dt)
            started == Append(events, Ev("start", i))
            to == IF o.raised THEN AfterExcept(Append(started, Ev("raise", i)))
                  ELSE AfterReturn(i, Append(started, Ev("ok", i)))
        IN  /\ Apply(o)
            /\ ppc' = to.ppc
            /\ events' = to.events
    /\ UNCHANGED <<cmds, tvars>>

\* run_pipeline has returned or raised: the process ends
PipelineExit ==
    /\ ppc \in {"complete", "raised"}
    /\ ppc' = "idle"
    /\ UNCHANGED <<fs, clock, table, cmds, events, tvars>>

InitCli ==
    /\ CliIdle
    /\ pc = "none"
    /\ heap = <<>>
    /\ ref = 0
    /\ argId = 0
    /\ argIn = <<>>
    /\ file = <<>>

NextCli ==
    \/ CmdGenerate
    \/ CmdEtl
    \/ CmdAnomalies
    \/ CmdLoad
    \/ CmdPipeline
    \/ PipelineStage
    \/ PipelineExit

SpecCli == InitCli /\ [][NextCli]_vars

(***************************************************************************)
(* Properties.                                                             *)
(***************************************************************************)
IsNum(c) == c.k \in {"float", "int"}

PosOf(df, lab) == CHOOSE i \in 1..Len(df) : df[i].idx = lab

MeterIds(df) == {df[i].meter_id : i \in 1..Len(df)}

SamplesOf(df, m) == SelectSeq(df, LAMBDA r : r.meter_id = m)

\* the sum of the (integer) power_kw of g[lo..hi]
RECURSIVE SumPower(_, _, _)
SumPower(g, lo, hi) ==
    IF lo > hi THEN 0 ELSE g[hi].power_kw.n + SumPower(g, lo, hi - 1)

\* C1: every record the Value Sanitizer returns has voltage, current and
\* power_kw present, with voltage >= 50, current >= 0 and power_kw >= 0, and
\* has power_factor missing or within [0, 1].
C1_SanitizedWithinBounds ==
    pc = "cleaned" =>
        \A i \in 1..Len(heap[ref]) :
            LET r == heap[ref][i]
            IN  /\ IsNum(r.voltage) /\ r.voltage.n >= 50 * r.voltage.d
                /\ IsNum(r.current) /\ r.current.n >= 0
                /\ IsNum(r.power_kw) /\ r.power_kw.n >= 0
                /\ \/ r.power_factor.k = "nan"
                   \/ /\ IsNum(r.power_factor)
                      /\ 0 <= r.power_factor.n
                      /\ r.power_factor.n <= r.power_factor.d

\* C1's case: the sanitizer was given a record whose voltage type
\* normalization made missing, dropped a record, and returned one whose
\* power_factor type normalization made missing.
C1_Witness ==
    /\ pc = "cleaned"
    /\ \E i \in 1..Len(argIn) : argIn[i].voltage.k = "nan"
    /\ Len(heap[ref]) < Len(argIn)
    /\ \E i \in 1..Len(heap[ref]) : heap[ref][i].power_factor.k = "nan"
    /\ \E i \in 1..Len(argIn) : argIn[i].power_factor.k = "nan"

\* C2: anomaly_reason is the names of exactly the triggered rules, joined
\* by "," in the order voltage_out_of_range, current_out_of_range,
\* sudden_spike, sudden_drop, zero_power_but_active_line, or null when no
\* rule triggers; anomaly_flag is true iff a rule triggered.
RuleOrder ==
    <<"voltage_out_of_range", "current_out_of_range", "sudden_spike",
      "sudden_drop", "zero_power_but_active_line">>

Triggers(name, r) ==
    CASE name = "voltage_out_of_range" -> Lt(r.voltage, 180, 1) \/ Gt(r.voltage, 250, 1)
      [] name = "current_out_of_range" -> Lt(r.current, 0, 1) \/ Gt(r.current, 50, 1)
      [] name = "sudden_spike" -> Gt(r.kw_pct_change, 3, 2)
      [] name = "sudden_drop" -> Lt(r.kw_pct_change, -4, 5)
      [] name = "zero_power_but_active_line" ->
            EqNum(r.power_kw, 0, 1) /\ Gt(r.voltage, 150, 1) /\ Gt(r.current, 1, 10)

C2_ReasonsInRuleOrder ==
    pc = "tagged" =>
        \A i \in 1..Len(heap[ref]) :
            LET r == heap[ref][i]
                hit == SelectSeq(RuleOrder, LAMBDA name : Triggers(name, r))
            IN  /\ r.anomaly_reason = IF hit = <<>> THEN None ELSE Text(Join(hit, ","))
                /\ r.anomaly_flag = Bool(hit # <<>>)

\* C2's case: a record with voltage 300, current 60 and kw_pct_change 2.0 is
\* tagged with the three names in rule order, beside a record no rule fires on.
C2_Witness ==
    /\ pc = "tagged"
    /\ \E i \in 1..Len(heap[ref]) :
        LET r == heap[ref][i]
        IN  /\ EqNum(r.voltage, 300, 1)
            /\ EqNum(r.current, 60, 1)
            /\ EqNum(r.kw_pct_change, 2, 1)
            /\ r.anomaly_reason =
                 Text("voltage_out_of_range,current_out_of_range,sudden_spike")
            /\ r.anomaly_flag = Bool(TRUE)
    /\ \E i \in 1..Len(heap[ref]) :
        /\ heap[ref][i].anomaly_reason = None
        /\ heap[ref][i].anomaly_flag = Bool(FALSE)

\* C3: kw_pct_change is never infinite or NaN, and it is 0 for a sample
\* whose same-meter predecessor has power_kw exactly 0.
C3_ZeroPreviousGivesZero ==
    pc = "featured" =>
        \A m \in MeterIds(heap[ref]) :
            LET g == SamplesOf(heap[ref], m)
            IN  \A k \in 1..Len(g) :
                    /\ IsNum(g[k].kw_pct_change)
                    /\ (k > 1 /\ g[k - 1].power_kw.n = 0) => g[k].kw_pct_change.n = 0

\* C4: rolling_kw_1h of a meter's k-th sample is the mean of power_kw over
\* that meter's samples max(1, k-3)..k, the meter's samples being the
\* input's, in timestamp order.
C4_RollingMeanPerMeter ==
    pc = "featured" =>
        LET out == heap[ref]
        IN  /\ Labels(out) = Labels(argIn)
            /\ Len(out) = Len(argIn)
            /\ \A i \in 1..Len(out) :
                LET a == argIn[PosOf(argIn, out[i].idx)]
                IN  /\ out[i].meter_id = a.meter_id
                    /\ out[i].timestamp = a.timestamp
                    /\ out[i].power_kw = a.power_kw
            /\ \A m \in MeterIds(out) :
                LET g == SamplesOf(out, m)
                IN  \A k \in 1..Len(g) :
                        LET lo == IF k - 3 > 1 THEN k - 3 ELSE 1
                            mean == g[k].rolling_kw_1h
                        IN  /\ k > 1 => g[k - 1].timestamp.n <= g[k].timestamp.n
                            /\ IsNum(mean)
                            /\ mean.n * (k - lo + 1) = SumPower(g, lo, k) * mean.d

\* C4's case: a meter with five samples, given against time order with a
\* sample of another meter between them; the earliest has power_kw 3, the
\* others 0, the other meter's 3: the fourth mean is 3/4, the fifth 0.
C4_Witness ==
    /\ pc = "featured"
    /\ \E m \in MeterIds(heap[ref]) :
        LET g == SamplesOf(heap[ref], m)
        IN  /\ Len(g) = 5
            /\ g[1].power_kw.n = 3
            /\ g[1].idx > g[2].idx
            /\ EqNum(g[1].rolling_kw_1h, 3, 1)
            /\ EqNum(g[4].rolling_kw_1h, 3, 4)
            /\ EqNum(g[5].rolling_kw_1h, 0, 1)
    /\ \E i \in 2..(Len(argIn) - 1) :
        /\ argIn[i].meter_id # argIn[i - 1].meter_id
        /\ argIn[i].meter_id # argIn[i + 1].meter_id
        /\ argIn[i].power_kw.n = 3

\* C5: the first sample of every meter has kw_pct_change 0; a later sample
\* whose same-meter predecessor has non-zero power_kw has
\* (power_kw - previous power_kw) / previous power_kw.
C5_PctChangePerMeter ==
    pc = "featured" =>
        \A m \in MeterIds(heap[ref]) :
            LET g == SamplesOf(heap[ref], m)
            IN  \A k \in 1..Len(g) :
                    LET pct == g[k].kw_pct_change
                    IN  /\ k = 1 => EqNum(pct, 0, 1)
                        /\ (k > 1 /\ g[k - 1].power_kw.n # 0) =>
                              /\ IsNum(pct)
                              /\ pct.n * g[k - 1].power_kw.n =
                                   (g[k].power_kw.n - g[k - 1].power_kw.n) * pct.d

\* C5's case: the second meter's first sample follows, in the sorted record
\* set, a sample of the first meter with another, non-zero power_kw, and a
\* later sample of a meter has a change of -1.
C5_Witness ==
    /\ pc = "featured"
    /\ \E i \in 2..Len(heap[ref]) :
        /\ heap[ref][i].meter_id # heap[ref][i - 1].meter_id
        /\ heap[ref][i - 1].power_kw.n # 0
        /\ heap[ref][i].power_kw.n # heap[ref][i - 1].power_kw.n
        /\ EqNum(heap[ref][i].kw_pct_change, 0, 1)
    /\ \E i \in 2..Len(heap[ref]) :
        /\ heap[ref][i].meter_id = heap[ref][i - 1].meter_id
        /\ EqNum(heap[ref][i].kw_pct_change, -1, 1)

\* C6: the Type Normalizer never fails on an unparseable field value and
\* returns as many records as it was given, an unparseable timestamp as a
\* null timestamp and an unparseable number as a missing value.
C6_NeverFailsNeverDrops ==
    /\ pc # "raised"
    /\ pc = "typed" =>
        /\ Len(heap[ref]) = Len(argIn)
        /\ \A i \in 1..Len(argIn) :
            /\ (argIn[i].timestamp.k = "str" /\ ~ParseTime(argIn[i].timestamp.s).ok)
                  => heap[ref][i].timestamp = NaT
            /\ (argIn[i].voltage.k = "str" /\ ~ParseInt(argIn[i].voltage.s).ok)
                  => heap[ref][i].voltage = NaN

CoreMissing(r) ==
    \/ ~IsNum(r.voltage) \/ r.voltage.n < 50 * r.voltage.d
    \/ ~IsNum(r.current) \/ r.current.n < 0
    \/ ~IsNum(r.power_kw) \/ r.power_kw.n < 0

ClampedFactor(c) ==
    IF IsNum(c) /\ c.n > c.d THEN Flt(1, 1)
    ELSE IF IsNum(c) /\ c.n < 0 THEN NaN
    ELSE c

C8_FilterAndClamp ==
    pc = "cleaned" =>
        LET out == heap[ref]
        IN  /\ Labels(out) \subseteq Labels(argIn)
            /\ \A i, j \in 1..Len(out) :
                i < j => PosOf(argIn, out[i].idx) < PosOf(argIn, out[j].idx)
            /\ \A j \in 1..Len(argIn) :
                (argIn[j].idx \in Labels(out)) <=> ~CoreMissing(argIn[j])
            /\ \A i \in 1..Len(out) :
                LET a == argIn[PosOf(argIn, out[i].idx)]
                IN  /\ DOMAIN out[i] = DOMAIN a
                    /\ \A c \in DOMAIN a \ {"power_factor"} : out[i][c] = a[c]
                    /\ out[i].power_factor = ClampedFactor(a.power_factor)

\* C8's case: of two records the first is dropped, the second survives with
\* its power_factor clamped to 1.0.
C8_Witness ==
    /\ pc = "cleaned"
    /\ Len(argIn) = 2
    /\ Len(heap[ref]) = 1
    /\ heap[ref][1].idx = argIn[2].idx
    /\ Gt(argIn[2].power_factor, 1, 1)
    /\ heap[ref][1].power_factor = Flt(1, 1)

\* C9: every file load_to_postgres appended to readings is an
\* anomaly-tagged record set.
C9_LoadsOnlyTagged == \A i \in 1..Len(table) : table[i] = "tagged"

\* C10: run_pipeline starts generate, transform, detect, load in this
\* order, each after the one before returned; after a stage raised no stage
\* is started, the exception is re-raised and completion is not reported.
RECURSIVE Returned(_)
Returned(k) ==
    IF k = 0 THEN <<>> ELSE Returned(k - 1) \o <<Ev("start", k), Ev("ok", k)>>

C10_StagesInOrder ==
    \/ events = <<>> /\ ppc = "idle"
    \/ \E k \in 0..(Len(Stages) - 1) : events = Returned(k) /\ ppc = Stages[k + 1]
    \/ /\ events = Returned(Len(Stages)) \o <<Complete>>
       /\ ppc \in {"complete", "idle"}
    \/ \E k \in 1..Len(Stages) :
        /\ events = Returned(k - 1) \o <<Ev("start", k), Ev("raise", k), Reraise>>
        /\ ppc \in {"raised", "idle"}

\* C10's case: generate and transform returned, detect raised, and
\* run_pipeline has re-raised.
C10_Witness ==
    /\ ppc = "raised"
    /\ events = Returned(2) \o <<Ev("start", 3), Ev("raise", 3), Reraise>>

====
